---- MODULE Spec2Model ----
(***************************************************************************)
(* A model of src/app.py of titanic-api: the application factory           *)
(* create_app(env_name), statement by statement, and the handling of GET   *)
(* requests by the application it returns.                                 *)
(*                                                                         *)
(* A path is the sequence of its segments: "/" is << >>, "/health" is      *)
(* <<"health">>.  A segment written "<id>" is a converter (a variable     *)
(* part) of a rule.                                                        *)
(***************************************************************************)
EXTENDS Integers, Sequences, FiniteSets, TLC

VARIABLES
  env_name,   \* the argument of create_app
  people,     \* the rules the people blueprint defines (external collaborator)
  pc,         \* the line create_app is about to execute, "returned" or "raised"
  app,        \* whether Flask(__name__) has been constructed (line 17)
  config,     \* the configuration object applied to app.config, or "unset"
  db_bound,   \* whether db.init_app(app) has completed
  blueprints, \* the names of the blueprints registered on the app
  url_map,    \* the app's rules, in registration order
  result,     \* what create_app gave its caller: "none", "app" or the error raised
  req,        \* the requests: url, position, endpoint, probe outcome, response
  probes      \* the log of the probes executed on the database, in order

vars == <<env_name, people, pc, app, config, db_bound, blueprints, url_map,
          result, req, probes>>

bootVars == <<env_name, people, pc, app, config, db_bound, blueprints, url_map, result>>

(***************************************************************************)
(* Bounds and inputs.                                                      *)
(***************************************************************************)
MaxRequests == 2

Requests == 1..MaxRequests

\* The environment names create_app is called with; "staging" is no key of app_config.
EnvNames == {"development", "testing", "staging"}

\* The configuration registry imported at line 2: environment name -> settings object.
app_config ==
  [development |-> "Development", production |-> "Production", testing |-> "Testing"]

\* The rules a people blueprint may define, in the order it defines them.
BlueprintRules == << << >>, <<"health">>, <<"people">>, <<"<id>">> >>

\* The URLs requested.
URLs == { << >>, <<"health">>, <<"people">>, <<"42">> }

HTTP_OK == 200
HTTP_UNAVAILABLE == 503

(***************************************************************************)
(* Exceptions.  A probe outcome is a normal return or a raised exception   *)
(* of some class with some args.                                           *)
(***************************************************************************)
\* The base class of each exception class (Python's builtin hierarchy).
Base ==
  [OperationalError  |-> "Exception",
   Exception         |-> "BaseException",
   KeyboardInterrupt |-> "BaseException",
   BaseException     |-> "object"]

RECURSIVE IsSubclass(_, _)
IsSubclass(cls, of) ==
  IF cls = of THEN TRUE
  ELSE IF cls \notin DOMAIN Base THEN FALSE
  ELSE IsSubclass(Base[cls], of)

Ok == [kind |-> "ok", cls |-> "none", args |-> << >>]

Raise(cls, args) == [kind |-> "raise", cls |-> cls, args |-> args]

\* What db.session.execute('SELECT 1') may do.
ProbeOutcomes ==
  { Ok,
    Raise("OperationalError", <<"connection refused">>),
    Raise("Exception", << >>),
    Raise("KeyboardInterrupt", << >>) }

\* A buggy stringification: the class name instead of the message.
StrClassName(e) == e.cls

\* str(e) of an exception: "" with no args, the argument with one.
Str(e) == IF Len(e.args) = 0 THEN "" ELSE e.args[1]


(***************************************************************************)
(* Rules, endpoints and the dispatch of a URL.                             *)
(***************************************************************************)
AppEndpoint(name) == [owner |-> "app", name |-> name, rule |-> << >>]

\* The endpoint of the blueprint's view for one of its rules.
BlueprintEndpoint(rule) == [owner |-> "people_api", name |-> "view", rule |-> rule]

NotFound == [owner |-> "werkzeug", name |-> "NotFound", rule |-> << >>]

Rule(path, endpoint) == [rule |-> path, methods |-> {"GET"}, endpoint |-> endpoint]

IsConverter(seg) == seg = "<id>"

\* Whether a rule's path matches a URL, converters matching any segment.
Matches(rule, url) ==
  /\ Len(rule) = Len(url)
  /\ \A i \in 1..Len(rule) : rule[i] = url[i] \/ IsConverter(rule[i])

\* The indices of the rules of a map that answer GET on the URL: the static
\* ones and, apart, those matching through a converter.
StaticMatches(map, url) ==
  { i \in 1..Len(map) : "GET" \in map[i].methods /\ map[i].rule = url }

DynamicMatches(map, url) ==
  { i \in 1..Len(map) : /\ "GET" \in map[i].methods
                        /\ map[i].rule # url
                        /\ Matches(map[i].rule, url) }

Min(S) == CHOOSE i \in S : \A j \in S : i <= j

\* A dispatch in which the rule registered last wins.
DispatchLastWins(map, url) ==
  LET Last(S) == CHOOSE i \in S : \A j \in S : i >= j
  IN  IF StaticMatches(map, url) # {} THEN map[Last(StaticMatches(map, url))].endpoint
      ELSE IF DynamicMatches(map, url) # {}
        THEN map[Last(DynamicMatches(map, url))].endpoint
      ELSE NotFound

\* The endpoint a GET of the URL is dispatched to: a static rule before a
\* converter, and among equal rules the one registered first.
Dispatch(map, url) ==
  IF StaticMatches(map, url) # {} THEN map[Min(StaticMatches(map, url))].endpoint
  ELSE IF DynamicMatches(map, url) # {} THEN map[Min(DynamicMatches(map, url))].endpoint
  ELSE NotFound

\* The rules a blueprint contributes when mounted at a prefix: the prefix's
\* segments, then the rule's.
BlueprintMount(prefix, rules) ==
  [i \in 1..Len(rules) |-> Rule(prefix \o rules[i], BlueprintEndpoint(rules[i]))]

\* The rules of the people blueprint, in its own order.
PeopleRules == SelectSeq(BlueprintRules, LAMBDA r : r \in people)

(***************************************************************************)
(* The view functions.                                                     *)
(***************************************************************************)
NoResponse == [code |-> 0, kind |-> "none", body |-> [none |-> ""]]

NoOutcome == [kind |-> "none", cls |-> "none", args |-> << >>]

\* index(), lines 24-33: the welcome string (its surrounding white space left
\* out), which Flask sends as text with status 200.
index ==
  [code |-> 200, kind |-> "text", body |-> [text |-> "Welcome to the Titanic API"]]

\* api_index(), lines 58-69.
api_index ==
  [code |-> HTTP_OK, kind |-> "json",
   body |-> [message   |-> "Welcome to Titanic API",
             version   |-> "1.0.0",
             endpoints |-> [health |-> "/health", passengers |-> "/api/v1/passengers"]]]

\* A healthy body that carries an error key as well.
HealthyWithError ==
  [code |-> HTTP_OK, kind |-> "json",
   body |-> [status |-> "healthy", database |-> "connected", service |-> "titanic-api",
             error |-> ""]]

\* The try block's return, lines 44-48.
Healthy ==
  [code |-> HTTP_OK, kind |-> "json",
   body |-> [status |-> "healthy", database |-> "connected", service |-> "titanic-api"]]

\* The except clause's return, lines 50-54.
Unhealthy(e) ==
  [code |-> HTTP_UNAVAILABLE, kind |-> "json",
   body |-> [status |-> "unhealthy", database |-> "disconnected", error |-> Str(e)]]

Returned(response) == [returned |-> TRUE, response |-> response]

Propagated == [returned |-> FALSE, response |-> NoResponse]

\* A health_check with a bare except, which catches every exception.
health_check_bare_except(o) ==
  IF o.kind = "ok" THEN Returned(Healthy) ELSE Returned(Unhealthy(o))

\* health_check(), lines 41-54, given what the probe did: the try block's
\* return, the except clause for an instance of Exception, and otherwise
\* the exception leaves the function.
health_check(o) ==
  IF o.kind = "ok" THEN Returned(Healthy)
  ELSE IF IsSubclass(o.cls, "Exception") THEN Returned(Unhealthy(o))
  ELSE Propagated

\* The response of the view of an endpoint other than health_check.
View(endpoint) ==
  IF endpoint = AppEndpoint("index") THEN index
  ELSE IF endpoint = AppEndpoint("api_index") THEN api_index
  ELSE IF endpoint = NotFound
    THEN [code |-> 404, kind |-> "error", body |-> [name |-> "Not Found"]]
  ELSE [code |-> 200, kind |-> "external", body |-> [rule |-> endpoint.rule]]

(***************************************************************************)
(* create_app(env_name), lines 17-70, one statement at a time.             *)
(***************************************************************************)
Init ==
  /\ env_name \in EnvNames
  /\ people \in SUBSET { BlueprintRules[i] : i \in 1..Len(BlueprintRules) }
  /\ pc = "line17"
  /\ app = FALSE
  /\ config = "unset"
  /\ db_bound = FALSE
  /\ blueprints = {}
  /\ url_map = << >>
  /\ result = "none"
  /\ req = [r \in Requests |->
             [url |-> << >>, pc |-> "idle", endpoint |-> NotFound,
              outcome |-> NoOutcome, response |-> NoResponse]]
  /\ probes = << >>

\* Line 17: app = Flask(__name__).
NewFlask ==
  /\ pc = "line17"
  /\ app' = TRUE
  /\ pc' = "line18"
  /\ UNCHANGED <<env_name, people, config, db_bound, blueprints, url_map, result, req, probes>>

\* A lookup that falls back to no configuration for an unknown name.
FromObjectDefault ==
  /\ pc = "line18"
  /\ config' = IF env_name \in DOMAIN app_config THEN app_config[env_name] ELSE "None"
  /\ pc' = "line19"
  /\ UNCHANGED <<env_name, people, app, db_bound, blueprints, url_map, result, req, probes>>

\* Line 18: app.config.from_object(app_config[env_name]); the subscript
\* raises KeyError for a name that is no key, and nothing catches it.
FromObject ==
  /\ pc = "line18"
  /\ IF env_name \in DOMAIN app_config
       THEN /\ config' = app_config[env_name]
            /\ pc' = "line19"
            /\ UNCHANGED result
       ELSE /\ result' = "KeyError"
            /\ pc' = "raised"
            /\ UNCHANGED config
  /\ UNCHANGED <<env_name, people, app, db_bound, blueprints, url_map, req, probes>>

\* An init_app whose error is swallowed.
InitAppSwallow ==
  /\ pc = "line19"
  /\ \E ok \in BOOLEAN :
       /\ db_bound' = ok
       /\ result' = IF ok THEN result ELSE "InitError"
       /\ pc' = "line21"
  /\ UNCHANGED <<env_name, people, app, config, blueprints, url_map, req, probes>>

\* Line 19: db.init_app(app), which completes or raises; nothing catches it.
InitApp ==
  /\ pc = "line19"
  /\ \E ok \in BOOLEAN :
       IF ok
         THEN /\ db_bound' = TRUE
              /\ pc' = "line21"
              /\ UNCHANGED result
         ELSE /\ result' = "InitError"
              /\ pc' = "raised"
              /\ UNCHANGED db_bound
  /\ UNCHANGED <<env_name, people, app, config, blueprints, url_map, req, probes>>

\* Line 21: app.register_blueprint(people, url_prefix="/").
RegisterBlueprint ==
  /\ pc = "line21"
  /\ blueprints' = blueprints \cup {"people_api"}
  /\ url_map' = url_map \o BlueprintMount(<< >>, PeopleRules)
  /\ pc' = "line23"
  /\ UNCHANGED <<env_name, people, app, config, db_bound, result, req, probes>>

\* Line 23: @app.route('/', methods=['GET']) on index.
RouteIndex ==
  /\ pc = "line23"
  /\ url_map' = Append(url_map, Rule(<< >>, AppEndpoint("index")))
  /\ pc' = "line35"
  /\ UNCHANGED <<env_name, people, app, config, db_bound, blueprints, result, req, probes>>

\* A factory that forgets the health route.
RouteHealthSkipped ==
  /\ pc = "line35"
  /\ pc' = "line57"
  /\ UNCHANGED <<env_name, people, app, config, db_bound, blueprints, url_map, result, req, probes>>

\* Line 35: @app.route('/health', methods=['GET']) on health_check.
RouteHealth ==
  /\ pc = "line35"
  /\ url_map' = Append(url_map, Rule(<<"health">>, AppEndpoint("health_check")))
  /\ pc' = "line57"
  /\ UNCHANGED <<env_name, people, app, config, db_bound, blueprints, result, req, probes>>

\* Line 57: @app.route('/', methods=['GET']) on api_index.
RouteApiIndex ==
  /\ pc = "line57"
  /\ url_map' = Append(url_map, Rule(<< >>, AppEndpoint("api_index")))
  /\ pc' = "line70"
  /\ UNCHANGED <<env_name, people, app, config, db_bound, blueprints, result, req, probes>>

\* Line 70: return app.
ReturnApp ==
  /\ pc = "line70"
  /\ result' = "app"
  /\ pc' = "returned"
  /\ UNCHANGED <<env_name, people, app, config, db_bound, blueprints, url_map, req, probes>>

(***************************************************************************)
(* Requests to the returned app.  Requests run concurrently: each has its  *)
(* own position, and health_check is left at its one external call.        *)
(***************************************************************************)
\* The probes a request has executed.
ProbesOf(r) == { i \in 1..Len(probes) : probes[i].req = r }

\* A GET request arrives and is dispatched through the url map.
Receive(r) ==
  /\ result = "app"
  /\ req[r].pc = "idle"
  /\ \E u \in URLs :
       req' = [req EXCEPT ![r] = [url |-> u, pc |-> "dispatched",
                                  endpoint |-> Dispatch(url_map, u),
                                  outcome |-> NoOutcome, response |-> NoResponse]]
  /\ UNCHANGED <<bootVars, probes>>

\* index, api_index, a view of the blueprint or the 404 page answers.
ViewReturn(r) ==
  /\ req[r].pc = "dispatched"
  /\ req[r].endpoint # AppEndpoint("health_check")
  /\ req' = [req EXCEPT ![r].pc = "done", ![r].response = View(req[r].endpoint)]
  /\ UNCHANGED <<bootVars, probes>>

\* Line 43: db.session.execute('SELECT 1'), which returns or raises.
HealthProbe(r) ==
  /\ req[r].pc = "dispatched"
  /\ req[r].endpoint = AppEndpoint("health_check")
  /\ \E o \in ProbeOutcomes :
       /\ req' = [req EXCEPT ![r].pc = "probed", ![r].outcome = o]
       /\ probes' = Append(probes, [req |-> r, outcome |-> o])
  /\ UNCHANGED bootVars

\* A health_check that probes a second time after a failure.
HealthReturnRetry(r) ==
  /\ req[r].pc = "probed"
  /\ IF req[r].outcome.kind = "raise"
       THEN \E o \in ProbeOutcomes :
              /\ probes' = Append(probes, [req |-> r, outcome |-> o])
              /\ req' = [req EXCEPT
                           ![r].pc = IF health_check(o).returned THEN "done" ELSE "propagated",
                           ![r].outcome = o,
                           ![r].response = health_check(o).response]
       ELSE /\ req' = [req EXCEPT ![r].pc = "done",
                                  ![r].response = health_check(req[r].outcome).response]
            /\ UNCHANGED probes
  /\ UNCHANGED bootVars

\* A health_check that answers from the first probe ever made.
HealthReturnCached(r) ==
  /\ req[r].pc = "probed"
  /\ req' = [req EXCEPT
               ![r].pc = IF health_check(probes[1].outcome).returned
                           THEN "done" ELSE "propagated",
               ![r].response = health_check(probes[1].outcome).response]
  /\ UNCHANGED <<bootVars, probes>>

\* Lines 44-54: health_check returns its response, or the exception it does
\* not catch leaves it.
HealthReturn(r) ==
  /\ req[r].pc = "probed"
  /\ req' = [req EXCEPT
               ![r].pc = IF health_check(req[r].outcome).returned
                           THEN "done" ELSE "propagated",
               ![r].response = health_check(req[r].outcome).response]
  /\ UNCHANGED <<bootVars, probes>>

Next ==
  \/ NewFlask
  \/ FromObject
  \/ InitApp
  \/ RegisterBlueprint
  \/ RouteIndex
  \/ RouteHealth
  \/ RouteApiIndex
  \/ ReturnApp
  \/ \E r \in Requests : Receive(r)
  \/ \E r \in Requests : ViewReturn(r)
  \/ \E r \in Requests : HealthProbe(r)
  \/ \E r \in Requests : HealthReturn(r)

Spec == Init /\ [][Next]_vars

(***************************************************************************)
(* Vocabulary of the properties.                                           *)
(***************************************************************************)
HealthEndpoint == AppEndpoint("health_check")

\* The request was dispatched to health_check and health_check has ended.
HealthEnded(r) ==
  /\ req[r].endpoint = HealthEndpoint
  /\ req[r].pc \in {"done", "propagated"}

\* The request was answered by health_check.
HealthAnswered(r) ==
  /\ req[r].endpoint = HealthEndpoint
  /\ req[r].pc = "done"

HealthKeys == {"status", "database", "service"}

UnhealthyKeys == {"status", "database", "error"}

\* C1: a GET /health whose probe completes without raising is answered 200
\* with exactly {status: healthy, database: connected, service: titanic-api}.
C1_HealthyResponse ==
  \A r \in Requests :
    (HealthEnded(r) /\ req[r].outcome.kind = "ok") =>
      /\ req[r].pc = "done"
      /\ req[r].response.code = 200
      /\ req[r].response.kind = "json"
      /\ DOMAIN req[r].response.body = HealthKeys
      /\ req[r].response.body.status = "healthy"
      /\ req[r].response.body.database = "connected"
      /\ req[r].response.body.service = "titanic-api"

C1_Witness ==
  \E r \in Requests :
    /\ req[r].url = <<"health">>
    /\ HealthAnswered(r)
    /\ req[r].outcome.kind = "ok"

\* C2 as stated: a GET /health whose probe raises, whatever it raises, is
\* answered 503 with status unhealthy, database disconnected and a
\* non-empty error string.
C2_Original ==
  \A r \in Requests :
    (HealthEnded(r) /\ req[r].outcome.kind = "raise") =>
      /\ req[r].pc = "done"
      /\ req[r].response.code = 503
      /\ req[r].response.body.status = "unhealthy"
      /\ req[r].response.body.database = "disconnected"
      /\ req[r].response.body.error # ""

\* C2 amended: a GET /health whose probe raises an instance of Exception is
\* answered 503 with exactly the keys status, database and error, status
\* unhealthy, database disconnected, and error the failure's str(), which
\* is the empty string for a failure without a message.
C2_UnhealthyResponse ==
  \A r \in Requests :
    (HealthEnded(r) /\ req[r].outcome.kind = "raise"
       /\ IsSubclass(req[r].outcome.cls, "Exception")) =>
      /\ req[r].pc = "done"
      /\ req[r].response.code = 503
      /\ req[r].response.kind = "json"
      /\ DOMAIN req[r].response.body = UnhealthyKeys
      /\ req[r].response.body.status = "unhealthy"
      /\ req[r].response.body.database = "disconnected"
      /\ req[r].response.body.error =
           (IF req[r].outcome.args = << >> THEN "" ELSE req[r].outcome.args[1])
      /\ (req[r].outcome.args = << >> => req[r].response.body.error = "")
      /\ (req[r].outcome.args = <<"connection refused">>
            => req[r].response.body.error = "connection refused")

C2_Witness ==
  \E r \in Requests :
    /\ HealthAnswered(r)
    /\ req[r].outcome = Raise("Exception", << >>)
    /\ req[r].response.code = 503
    /\ req[r].response.body.error = ""

\* C3 as stated: every GET / is dispatched to api_index and answered 200
\* with the structured payload, never with the welcome string of index.
C3_Original ==
  \A r \in Requests :
    (req[r].url = << >> /\ req[r].pc = "done") =>
      /\ req[r].endpoint = AppEndpoint("api_index")
      /\ req[r].response.code = 200
      /\ req[r].response.kind = "json"
      /\ req[r].response.body.version = "1.0.0"
      /\ DOMAIN req[r].response.body.endpoints = {"health", "passengers"}

C3_IndexServesRoot ==
  \E r \in Requests :
    /\ req[r].url = << >>
    /\ req[r].pc = "done"
    /\ req[r].endpoint = AppEndpoint("index")
    /\ req[r].response.kind = "text"

\* Whether the map holds a rule for the path with the app's endpoint.
Registered(path, name) ==
  \E i \in 1..Len(url_map) :
    /\ url_map[i].rule = path
    /\ "GET" \in url_map[i].methods
    /\ url_map[i].endpoint = AppEndpoint(name)

\* C4: for an env_name that is no key of app_config, create_app ends by
\* raising the lookup error: no app is returned, and the database init, the
\* blueprint mount and the route registrations are never performed.
C4_UnknownEnvRaises ==
  env_name \notin DOMAIN app_config =>
    /\ pc \in {"line17", "line18", "raised"}
    /\ (pc = "raised" => result = "KeyError")
    /\ result # "app"
    /\ config = "unset"
    /\ ~db_bound
    /\ blueprints = {}
    /\ url_map = << >>

C4_Witness ==
  /\ env_name = "staging"
  /\ pc = "raised"
  /\ result = "KeyError"

\* C5 as stated: for every env_name that is a key of app_config, create_app
\* ends by returning the app, never by raising.
C5_Original ==
  (env_name \in DOMAIN app_config /\ pc \in {"returned", "raised"}) =>
    /\ pc = "returned"
    /\ result = "app"

\* C5 amended: for an env_name that is a key of app_config, create_app
\* raises only when db.init_app raises; otherwise it returns the app, and
\* the returned app has the selected configuration, the database handle
\* initialised, the people blueprint mounted at prefix / and the routes
\* GET / and GET /health registered.
C5_ReturnsWiredApp ==
  /\ (env_name \in DOMAIN app_config /\ pc = "raised") => result = "InitError"
  /\ (env_name \in DOMAIN app_config /\ pc = "returned") => result = "app"
  /\ result = "app" =>
       /\ pc = "returned"
       /\ app
       /\ env_name \in DOMAIN app_config
       /\ config = app_config[env_name]
       /\ db_bound
       /\ "people_api" \in blueprints
       /\ \A p \in people :
            \E i \in 1..Len(url_map) :
              url_map[i].rule = p /\ url_map[i].endpoint = BlueprintEndpoint(p)
       /\ Registered(<< >>, "index")
       /\ Registered(<<"health">>, "health_check")
       /\ Registered(<< >>, "api_index")

C5_Witness ==
  /\ env_name = "testing"
  /\ result = "app"
  /\ config = "Testing"
  /\ people # {}

\* C6: once create_app has returned, every rule of the people blueprint is
\* reachable: it precedes the app's own rules in the map, and some URL is
\* dispatched to its view, whatever paths the blueprint defines.
C6_BlueprintReachable ==
  result = "app" =>
    /\ \A i, j \in 1..Len(url_map) :
         (url_map[i].endpoint.owner = "people_api" /\ url_map[j].endpoint.owner = "app")
           => i < j
    /\ \A p \in people : \E u \in URLs : Dispatch(url_map, u) = BlueprintEndpoint(p)

C6_Witness ==
  /\ result = "app"
  /\ people = { << >>, <<"health">>, <<"people">>, <<"<id>">> }
  /\ \E r \in Requests :
       /\ req[r].url = << >>
       /\ req[r].pc = "done"
       /\ req[r].endpoint = BlueprintEndpoint(<< >>)

\* C7 as stated: every GET /health handled by health_check ends with a
\* response of status 200 or 503, 200 exactly when the probe did not raise,
\* and no error of the probe leaves health_check.
C7_Original ==
  \A r \in Requests :
    HealthEnded(r) =>
      /\ req[r].pc = "done"
      /\ req[r].response.code \in {200, 503}
      /\ (req[r].response.code = 200 <=> req[r].outcome.kind = "ok")

\* C7 amended: a GET /health whose probe returns or raises an instance of
\* Exception ends with one response, 200 and healthy exactly when the probe
\* did not raise, 503 and unhealthy otherwise; an exception that is no
\* instance of Exception (KeyboardInterrupt, SystemExit) is not caught and
\* leaves health_check without a response.
C7_StatusMatchesProbe ==
  \A r \in Requests :
    HealthEnded(r) =>
      /\ (req[r].pc = "propagated") <=>
           (req[r].outcome.kind = "raise" /\ ~IsSubclass(req[r].outcome.cls, "Exception"))
      /\ req[r].pc = "propagated" => req[r].response = NoResponse
      /\ req[r].pc = "done" =>
           /\ req[r].response.code \in {200, 503}
           /\ (req[r].response.code = 200 <=> req[r].outcome.kind = "ok")
           /\ (req[r].response.code = 200 <=> req[r].response.body.status = "healthy")
           /\ (req[r].response.code = 503 <=> req[r].response.body.status = "unhealthy")

C7_Witness ==
  \E r, q \in Requests :
    /\ HealthEnded(r)
    /\ req[r].pc = "propagated"
    /\ req[r].outcome.cls = "KeyboardInterrupt"
    /\ HealthAnswered(q)
    /\ req[q].outcome.cls = "OperationalError"
    /\ req[q].response.code = 503

\* The number of probes a request must have executed at its position.
ProbesDue(r) ==
  IF req[r].endpoint = HealthEndpoint /\ req[r].pc \in {"probed", "done", "propagated"}
    THEN 1 ELSE 0

\* C8: no request changes the configuration or the route table of the
\* returned app, and the only external action is the probe: a request
\* handled by health_check executes it exactly once, also after a failure,
\* and any other request (GET / among them) executes none.
C8_RequestsOnlyProbe ==
  /\ [][result = "app" =>
          /\ config' = config
          /\ url_map' = url_map
          /\ blueprints' = blueprints
          /\ db_bound' = db_bound
          /\ result' = result]_vars
  /\ [](\A r \in Requests : Cardinality(ProbesOf(r)) = ProbesDue(r))
  /\ [](\A i \in 1..Len(probes) : req[probes[i].req].endpoint = HealthEndpoint)

C8_Witness ==
  \E r, q \in Requests :
    /\ HealthAnswered(r)
    /\ req[r].outcome.kind = "raise"
    /\ Cardinality(ProbesOf(r)) = 1
    /\ req[q].url = << >>
    /\ req[q].pc = "done"
    /\ ProbesOf(q) = {}
    /\ Len(probes) = 1

\* C9: create_app runs configuration, database init, blueprint mount, the
\* three route registrations and the return in that order; when db.init_app
\* raises, create_app ends there with that error: no app is returned and
\* neither the blueprint nor any route handler is registered.
C9_BootstrapOrder ==
  /\ config # "unset" => app
  /\ db_bound => config # "unset"
  /\ blueprints # {} => db_bound
  /\ url_map # << >> => "people_api" \in blueprints
  /\ Registered(<< >>, "index") => "people_api" \in blueprints
  /\ Registered(<<"health">>, "health_check") => Registered(<< >>, "index")
  /\ Registered(<< >>, "api_index") => Registered(<<"health">>, "health_check")
  /\ result = "app" => Registered(<< >>, "api_index")
  /\ result = "InitError" =>
       /\ pc = "raised"
       /\ config # "unset"
       /\ ~db_bound
       /\ blueprints = {}
       /\ url_map = << >>
       /\ \A r \in Requests : req[r].pc = "idle"

C9_Witness ==
  /\ result = "InitError"
  /\ pc = "raised"
  /\ env_name \in DOMAIN app_config

\* The outcome of the probe the request itself executed.
OwnProbe(r) == probes[CHOOSE i \in ProbesOf(r) : TRUE].outcome

\* C10: under any interleaving of requests, a response depends on its own
\* request only: health_check reports healthy exactly when the probe that
\* request executed returned, whatever the other probes did, and GET / is
\* answered by the same view, with the same response, whatever the probes.
C10_OwnProbeDecides ==
  \A r \in Requests :
    /\ HealthAnswered(r) =>
         /\ (req[r].response.body.status = "healthy" <=> OwnProbe(r).kind = "ok")
         /\ (req[r].response.body.status = "unhealthy" <=> OwnProbe(r).kind = "raise")
    /\ (req[r].url = << >> /\ req[r].pc = "done") =>
         IF << >> \in people
           THEN /\ req[r].endpoint = BlueprintEndpoint(<< >>)
                /\ req[r].response.kind = "external"
           ELSE /\ req[r].endpoint = AppEndpoint("index")
                /\ req[r].response.code = 200
                /\ req[r].response.kind = "text"
                /\ req[r].response.body.text = "Welcome to the Titanic API"

\* Two requests in flight together: the first probed and failed and has not
\* answered yet, the second probed after it, succeeded and answered healthy.
C10_Witness ==
  \E r, q \in Requests :
    /\ Len(probes) = 2
    /\ probes[1].req = r
    /\ probes[1].outcome.kind = "raise"
    /\ req[r].pc = "probed"
    /\ probes[2].req = q
    /\ probes[2].outcome.kind = "ok"
    /\ HealthAnswered(q)
    /\ req[q].response.body.status = "healthy"

====
